---- MODULE Spec2Model ----
(***************************************************************************)
(* ECi Condo Loan Calculator (src/ECI_Calc.py).                            *)
(*                                                                         *)
(* Money is held in fixed point.  One cent is UnitsPerCent units, chosen   *)
(* so that 0.25 * x, 0.75 * x and four successive multiplications by the   *)
(* rate 0.10 are exact for every x that is a whole number of cents: the    *)
(* binary64 arithmetic of the program is modelled by exact arithmetic, and *)
(* round(x, 2) by rounding half-even to whole cents.  The growth factors   *)
(* (1 + CAGR) ** year are rounded to FactorScale, as binary64 rounds them  *)
(* to 53 bits.  btc_amount is counted in 1/BtcScale BTC, prices in cents.  *)
(***************************************************************************)
EXTENDS Integers, Sequences, FiniteSets, TLC

VARIABLES btc_amount, condo_price, cache, pc, queries, binance_resp, yf_resp,
          btc_price, locals, outcome, fault, written, pay_args, pay_result

vars == <<btc_amount, condo_price, cache, pc, queries, binance_resp, yf_resp,
          btc_price, locals, outcome, fault, written, pay_args, pay_result>>

(* ------------------------------ bounds --------------------------------- *)
MaxCondoCents == 120
MaxBtcAmount == 50
MaxPrice == 20000
MaxLoanCents == 40

(* ------------------------- program constants --------------------------- *)
DownNum == 1
DownDen == 4
LoanNum == 3
RateNum == 1
RateDen == 10
loan_term_years == 4
CagrMilli == 281
ApprMilli == 40
FactorScale == 1000
BtcScale == 100

annual_interest_rate == <<RateNum, RateDen>>

RECURSIVE Pow(_, _)
Pow(b, n) == IF n = 0 THEN 1 ELSE b * Pow(b, n - 1)

UnitsPerCent == DownDen * Pow(RateDen, loan_term_years)

RECURSIVE GCD(_, _)
GCD(a, b) == IF b = 0 THEN a ELSE GCD(b, a % b)

Abs(x) == IF x < 0 THEN -x ELSE x

(* Python's None and a float value, as the return value of a function *)
None == <<>>
Float(p) == <<p>>

(* ------------------------------ inputs --------------------------------- *)
BtcAmounts == {0, 1, MaxBtcAmount}
CondoPrices == (0 .. MaxCondoCents) \cup {2000, 2500, 2501, 3000}
Prices == {-MaxPrice, 0, 12345, MaxPrice}

NotQueried == [kind |-> "not_queried", value |-> 0]
BinanceResponses ==
    {[kind |-> "exception", value |-> 0], [kind |-> "status", value |-> 500],
     [kind |-> "nokey", value |-> 0]}
    \cup {[kind |-> "price", value |-> p] : p \in Prices}
YfResponses ==
    {[kind |-> "exception", value |-> 0], [kind |-> "empty", value |-> 0]}
    \cup {[kind |-> "close", value |-> p] : p \in Prices}

(* ------------------------------ round ---------------------------------- *)
(* round(x, 2) of an amount x held in units: the nearest whole cent, ties  *)
(* to the even cent.                                                       *)
RoundCents(x) ==
    LET q == x \div UnitsPerCent
        r == x % UnitsPerCent
    IN  IF 2 * r < UnitsPerCent THEN q * UnitsPerCent
        ELSE IF 2 * r > UnitsPerCent THEN (q + 1) * UnitsPerCent
        ELSE IF q % 2 = 0 THEN q * UnitsPerCent
        ELSE (q + 1) * UnitsPerCent

(* round of the exact value whole + num/den (0 <= num < den) *)
RoundCentsMixed(p) ==
    LET q == p.whole \div UnitsPerCent
        r == p.whole % UnitsPerCent
        h == UnitsPerCent \div 2
    IN  IF r < h THEN q * UnitsPerCent
        ELSE IF r > h \/ p.num > 0 THEN (q + 1) * UnitsPerCent
        ELSE IF q % 2 = 0 THEN q * UnitsPerCent
        ELSE (q + 1) * UnitsPerCent

(* round(n / d * 100, 2), in hundredths of a percent; d > 0 *)
RoundPercent(n, d) ==
    LET g == GCD(Abs(n), d)
        nn == (n \div g) * 100 * 100
        dd == d \div g
        q == nn \div dd
        r == nn % dd
    IN  IF 2 * r < dd THEN q
        ELSE IF 2 * r > dd THEN q + 1
        ELSE IF q % 2 = 0 THEN q
        ELSE q + 1

(* x * f / s rounded to the nearest unit, without forming x * f *)
MulDiv(x, f, s) == (x \div s) * f + ((x % s) * f + s \div 2) \div s

(* --------------------- calculate_annual_payment ------------------------ *)
(* loan_amount * (r * (1 + r) ** years) / ((1 + r) ** years - 1) for the   *)
(* rate r = annual_rate[1] / annual_rate[2]: the exact quotient            *)
(* loan_amount * N / D as whole + num/den, or the ZeroDivisionError that   *)
(* Python raises when the divisor is zero.                                 *)
calculate_annual_payment(loan_amount, annual_rate, years) ==
    LET rn == annual_rate[1]
        rd == annual_rate[2]
        N == rn * Pow(rd + rn, years)
        D == rd * (Pow(rd + rn, years) - Pow(rd, years))
    IN  IF D = 0
        THEN [ok |-> FALSE, whole |-> 0, num |-> 0, den |-> 1]
        ELSE LET g == GCD(N, D)
                 n1 == N \div g
                 d1 == D \div g
                 q == loan_amount \div d1
                 r == loan_amount % d1
             IN  [ok |-> TRUE,
                  whole |-> q * n1 + (r * n1) \div d1,
                  num |-> (r * n1) % d1,
                  den |-> d1]

(* ----------------------- generate_loan_schedule ------------------------ *)
RECURSIVE ScheduleFrom(_, _, _, _, _)
ScheduleFrom(remaining_balance, annual_rate, annual_payment, year, years) ==
    IF year > years THEN <<>>
    ELSE LET interest == (remaining_balance * annual_rate[1]) \div annual_rate[2]
             principal == annual_payment - interest
             rb == remaining_balance - principal
         IN  <<[Year |-> year,
                Payment |-> RoundCents(annual_payment),
                Interest |-> RoundCents(interest),
                Principal |-> RoundCents(principal),
                Remaining_Balance |-> RoundCents(rb)]>>
             \o ScheduleFrom(rb, annual_rate, annual_payment, year + 1, years)

(* the loop written as range(1, years) *)
generate_loan_schedule_short(loan_amount, annual_rate, annual_payment, years) ==
    ScheduleFrom(loan_amount, annual_rate, annual_payment, 1, years - 1)

generate_loan_schedule(loan_amount, annual_rate, annual_payment, years) ==
    ScheduleFrom(loan_amount, annual_rate, annual_payment, 1, years)

(* ------------------------------- main ---------------------------------- *)
(* `not btc_price`: None and 0.0 are falsy, every other float is truthy *)
Truthy(ret) == ret # None /\ ret[1] # 0

ToUnits(cents) == cents * UnitsPerCent

(* V0 = btc_amount * btc_price *)
Collateral(amt, price) == amt * price * (UnitsPerCent \div BtcScale)

(* max_condo_cost = 0.25 * V0 *)
MaxCondoCost(v0) == (DownNum * v0) \div DownDen

(* the comparison written as a strict one *)
Accepts_strict(cp, max) == cp < max

(* condo_price <= max_condo_cost *)
Accepts(cp, max) == cp <= max

(* DP = 0.25 * condo_price, L = 0.75 * condo_price *)
DownPayment(cp) == (DownNum * cp) \div DownDen
(* the loan taken as the price less the down payment shown in cents *)
LoanAmount_lessshown(cp) == cp - RoundCents((DownNum * cp) \div DownDen)

LoanAmount(cp) == (LoanNum * cp) \div DownDen

(* the down payment left out of the total *)
TotalPayments_nodown(dp, a, n) == a * n

(* total_payments = DP + (A * loan_term_years) *)
TotalPayments(dp, a, n) == dp + a * n

(* profit = total_payments - condo_price *)
Profit(total, cp) == total - cp

(* (1 + rate) ** year, in FactorScale fixed point *)
RECURSIVE GrowthFactor(_, _)
GrowthFactor(rate, year) ==
    IF year = 0 THEN FactorScale
    ELSE (GrowthFactor(rate, year - 1) * (FactorScale + rate) + FactorScale \div 2)
             \div FactorScale

(* x * (1 + rate) ** year *)
Grow(x, rate, year) == MulDiv(x, GrowthFactor(rate, year), FactorScale)

(* list(range(0, loan_term_years + 1)) *)
Years(n) == [i \in 1 .. n + 1 |-> i - 1]

(* [btc + condo for btc, condo in zip(btc_values, condo_values)] *)
NetBenefit(v0, cp, ys) ==
    [i \in 1 .. Len(ys) |-> Grow(v0, CagrMilli, ys[i]) + Grow(cp, ApprMilli, ys[i])]

NoLocals == [n \in {} |-> 0]

WrittenRejected == {"max_condo_cost", "condo_price"}
WrittenLoan == {"DP", "L", "annual_interest_rate", "loan_term_years", "A", "schedule"}
WrittenProfit == {"profit_percentage", "total_payments", "profit"}
WrittenBenefit == {"net_benefit", "final_btc_value", "final_condo_value",
                   "investors_net_benefit"}

(* the rejected branch falling through into the loan computation *)
RejectedRun_through(base) ==
    [outcome |-> "Rejected", fault |-> "none",
     locals |-> base @@ [schedule |-> <<>>],
     written |-> WrittenRejected \cup WrittenLoan]

(* the else branch of the validation: the two figures of the message *)
RejectedRun(base) ==
    [outcome |-> "Rejected", fault |-> "none", locals |-> base,
     written |-> WrittenRejected]

(* the accepted branch, up to the first statement that raises *)
AcceptedRun(base, cp) ==
    LET v0 == base.V0
        dp == DownPayment(cp)
        l == LoanAmount(cp)
        pay == calculate_annual_payment(l, annual_interest_rate, loan_term_years)
        loan == base @@ [DP |-> dp, L |-> l]
    IN  IF ~pay.ok
        THEN [outcome |-> "Accepted", fault |-> "ZeroDivisionError",
              locals |-> loan, written |-> {}]
        ELSE
        LET a == RoundCentsMixed(pay)
            sched == generate_loan_schedule(l, annual_interest_rate, a, loan_term_years)
            total == TotalPayments(dp, a, loan_term_years)
            prof == Profit(total, cp)
            upto == loan @@ [A |-> a, schedule |-> sched,
                             total_payments |-> total, profit |-> prof]
        IN  IF cp = 0
            THEN [outcome |-> "Accepted", fault |-> "ZeroDivisionError",
                  locals |-> upto, written |-> WrittenLoan]
            ELSE
            LET ys == Years(loan_term_years)
                fb == Grow(v0, CagrMilli, loan_term_years)
                fc == Grow(cp, ApprMilli, loan_term_years)
            IN  [outcome |-> "Accepted", fault |-> "none",
                 locals |-> upto @@
                     [profit_percentage |-> RoundPercent(prof, cp),
                      final_btc_value |-> fb,
                      final_condo_value |-> fc,
                      investors_net_benefit |-> fb + fc,
                      years |-> ys,
                      net_benefit |-> NetBenefit(v0, cp, ys)],
                 written |-> WrittenLoan \cup WrittenProfit \cup WrittenBenefit]

(* the body of `if st.button("Evaluate Deal")` after the price is fetched: *)
(* amt in 1/BtcScale BTC, cents the condo price in cents, ret the value    *)
(* returned by fetch_btc_price                                             *)
main(amt, cents, ret) ==
    IF ~Truthy(ret)
    THEN [outcome |-> "PriceUnavailable", fault |-> "none", locals |-> NoLocals,
          written |-> {}]
    ELSE LET cp == ToUnits(cents)
             v0 == Collateral(amt, ret[1])
             max == MaxCondoCost(v0)
             base == [V0 |-> v0, max_condo_cost |-> max]
         IN  IF Accepts(cp, max) THEN AcceptedRun(base, cp) ELSE RejectedRun(base)

(* ------------------------- fetch_btc_price ----------------------------- *)
(* float(data.get("price", 0)) of a 200 response *)
BinancePrice(resp) == IF resp.kind = "price" THEN resp.value ELSE 0

(* the zero-price check left out *)
BinanceReturns_nozero(resp) == resp.kind \in {"price", "nokey"}

(* the Binance branch returns: status 200 and current_price != 0 *)
BinanceReturns(resp) ==
    resp.kind \in {"price", "nokey"} /\ BinancePrice(resp) # 0

(* the yfinance branch returns: no exception and data not empty *)
YfReturns(resp) == resp.kind = "close"

(* ------------------------------ state ---------------------------------- *)
NoPayArgs == [loan_amount |-> 0, annual_rate |-> annual_interest_rate, years |-> 1]
NotCalled == [ok |-> FALSE, whole |-> -1, num |-> 0, den |-> 1]

Init ==
    /\ btc_amount \in BtcAmounts
    /\ condo_price \in CondoPrices
    /\ cache = <<>>
    /\ pc = "idle"
    /\ queries = <<>>
    /\ binance_resp = NotQueried
    /\ yf_resp = NotQueried
    /\ btc_price = None
    /\ locals = NoLocals
    /\ outcome = "none"
    /\ fault = "none"
    /\ written = {}
    /\ pay_args = NoPayArgs
    /\ pay_result = NotCalled

payVars == <<pay_args, pay_result>>
fetchVars == <<queries, binance_resp, yf_resp, btc_price>>
resultVars == <<locals, outcome, fault, written>>

Cleared ==
    /\ locals' = NoLocals
    /\ outcome' = "none"
    /\ fault' = "none"
    /\ written' = {}

(* the user edits a number_input: the script reruns with the button unset *)
SetBtcAmount(a) ==
    /\ pc \in {"idle", "done"}
    /\ a # btc_amount
    /\ btc_amount' = a
    /\ pc' = "idle"
    /\ Cleared
    /\ UNCHANGED <<condo_price, cache, fetchVars, payVars>>

SetCondoPrice(c) ==
    /\ pc \in {"idle", "done"}
    /\ c # condo_price
    /\ condo_price' = c
    /\ pc' = "idle"
    /\ Cleared
    /\ UNCHANGED <<btc_amount, cache, fetchVars, payVars>>

(* "Evaluate Deal": fetch_btc_price is called; st.cache answers from the   *)
(* memo when the function has already returned once                        *)
ClickEvaluate ==
    /\ pc \in {"idle", "done"}
    /\ Cleared
    /\ queries' = <<>>
    /\ binance_resp' = NotQueried
    /\ yf_resp' = NotQueried
    /\ IF cache # <<>>
       THEN btc_price' = cache[1] /\ pc' = "main"
       ELSE btc_price' = None /\ pc' = "binance"
    /\ UNCHANGED <<btc_amount, condo_price, cache, payVars>>

QueryBinance(resp) ==
    /\ pc = "binance"
    /\ queries' = Append(queries, "binance")
    /\ binance_resp' = resp
    /\ IF BinanceReturns(resp)
       THEN /\ btc_price' = Float(BinancePrice(resp))
            /\ cache' = <<Float(BinancePrice(resp))>>
            /\ pc' = "main"
       ELSE /\ pc' = "yfinance"
            /\ UNCHANGED <<btc_price, cache>>
    /\ UNCHANGED <<btc_amount, condo_price, yf_resp, resultVars, payVars>>

QueryYfinance(resp) ==
    /\ pc = "yfinance"
    /\ queries' = Append(queries, "yfinance")
    /\ yf_resp' = resp
    /\ btc_price' = IF YfReturns(resp) THEN Float(resp.value) ELSE None
    /\ cache' = <<btc_price'>>
    /\ pc' = "main"
    /\ UNCHANGED <<btc_amount, condo_price, binance_resp, resultVars, payVars>>

Main ==
    /\ pc = "main"
    /\ LET run == main(btc_amount, condo_price, btc_price)
       IN  /\ locals' = run.locals
           /\ outcome' = run.outcome
           /\ fault' = run.fault
           /\ written' = run.written
    /\ pc' = "done"
    /\ UNCHANGED <<btc_amount, condo_price, cache, fetchVars, payVars>>

(* the memo of st.cache is dropped (cache cleared, server restarted) *)
ClearCache ==
    /\ pc \in {"idle", "done"}
    /\ cache # <<>>
    /\ cache' = <<>>
    /\ UNCHANGED <<btc_amount, condo_price, pc, fetchVars, resultVars, payVars>>

Next ==
    \/ \E a \in BtcAmounts : SetBtcAmount(a)
    \/ \E c \in CondoPrices : SetCondoPrice(c)
    \/ ClickEvaluate
    \/ \E resp \in BinanceResponses : QueryBinance(resp)
    \/ \E resp \in YfResponses : QueryYfinance(resp)
    \/ Main
    \/ ClearCache

Spec == Init /\ [][Next]_vars

(* ------------- calculate_annual_payment as a pure function ------------- *)
PayLoans == {ToUnits(c) : c \in 0 .. MaxLoanCents}
PayRates == {<<0, RateDen>>, annual_interest_rate, <<2, RateDen>>}
PayYears == 1 .. loan_term_years
PayArgs == [loan_amount : PayLoans, annual_rate : PayRates, years : PayYears]

InitPay ==
    /\ btc_amount = 0
    /\ condo_price = 0
    /\ cache = <<>>
    /\ pc = "idle"
    /\ queries = <<>>
    /\ binance_resp = NotQueried
    /\ yf_resp = NotQueried
    /\ btc_price = None
    /\ locals = NoLocals
    /\ outcome = "none"
    /\ fault = "none"
    /\ written = {}
    /\ pay_args \in PayArgs
    /\ pay_result = NotCalled

mainVars == <<btc_amount, condo_price, cache, pc, fetchVars, resultVars>>

CallPayment ==
    /\ pay_result = NotCalled
    /\ pay_result' = calculate_annual_payment(pay_args.loan_amount,
                                              pay_args.annual_rate, pay_args.years)
    /\ UNCHANGED <<pay_args, mainVars>>

ChangeArgs(args) ==
    /\ pay_result # NotCalled
    /\ pay_args' = args
    /\ pay_result' = NotCalled
    /\ UNCHANGED mainVars

NextPay ==
    \/ CallPayment
    \/ \E args \in PayArgs : ChangeArgs(args)

SpecPay == InitPay /\ [][NextPay]_vars

(* ------------------------------ claims --------------------------------- *)
Done == pc = "done"
PricePositive == btc_price # None /\ btc_price[1] > 0
CondoUnits == condo_price * UnitsPerCent
FiveCents == 5 * UnitsPerCent

RECURSIVE SumPrincipal(_, _)
SumPrincipal(rows, k) == IF k = 0 THEN 0 ELSE SumPrincipal(rows, k - 1) + rows[k].Principal

(* C1: with a positive price the decision is Accepted exactly when        *)
(* condo_price <= 0.25 * btc_amount * btc_price (the boundary included),  *)
(* and once a condo_price is Rejected every larger one is Rejected too.   *)
C1_AcceptedIffWithinQuarter ==
    (Done /\ PricePositive) =>
        /\ outcome \in {"Accepted", "Rejected"}
        /\ (outcome = "Accepted") <=> (4 * 100 * condo_price <= btc_amount * btc_price[1])
        /\ outcome = "Rejected" =>
               \A c \in CondoPrices :
                   c > condo_price => main(btc_amount, c, btc_price).outcome = "Rejected"

C1_Witness ==
    /\ Done /\ PricePositive /\ outcome = "Accepted"
    /\ condo_price > 0
    /\ 4 * 100 * condo_price = btc_amount * btc_price[1]

(* C2: a price that is None, zero or negative ends the evaluation with    *)
(* the price-unavailable error; nothing is computed from it.              *)
C2_NonPositivePriceStops ==
    (Done /\ ~PricePositive) => (outcome = "PriceUnavailable" /\ locals = NoLocals)

(* C3: Binance is queried first; yfinance is queried only after Binance   *)
(* failed (exception, non-200, zero price); None is returned only when    *)
(* both failed, otherwise the price of the first source that succeeded.   *)
BinanceFailed ==
    \/ binance_resp.kind \in {"exception", "status", "nokey"}
    \/ binance_resp.kind = "price" /\ binance_resp.value = 0
YfFailed == yf_resp.kind \in {"exception", "empty"}

C3_PrimaryThenFallback ==
    /\ queries \in {<<>>, <<"binance">>, <<"binance", "yfinance">>}
    /\ pc = "yfinance" => (queries = <<"binance">> /\ BinanceFailed)
    /\ Len(queries) = 2 => BinanceFailed
    /\ (pc \in {"main", "done"} /\ queries # <<>>) =>
           /\ (Len(queries) = 2) <=> BinanceFailed
           /\ (btc_price = None) <=> (BinanceFailed /\ YfFailed)
           /\ ~BinanceFailed => btc_price = <<binance_resp.value>>
           /\ (BinanceFailed /\ ~YfFailed) => btc_price = <<yf_resp.value>>

C3_Witness ==
    /\ pc = "main"
    /\ queries = <<"binance", "yfinance">>
    /\ binance_resp.kind = "price" /\ binance_resp.value = 0
    /\ btc_price = <<MaxPrice>>

(* C4: in every accepted evaluation down_payment + loan_amount equals     *)
(* condo_price, with down_payment a quarter and loan_amount three         *)
(* quarters of it.                                                        *)
C4_PartsRecombine ==
    outcome = "Accepted" =>
        /\ locals.DP + locals.L = CondoUnits
        /\ 4 * locals.DP = CondoUnits
        /\ 4 * locals.L = 3 * CondoUnits

C4_Witness ==
    /\ Done /\ outcome = "Accepted" /\ fault = "none"
    /\ condo_price % 4 # 0
    /\ locals.DP + locals.L = CondoUnits

(* C5: when condo_price > 0.25 * btc_amount * btc_price the evaluation    *)
(* ends Rejected, shows exactly max_condo_cost and condo_price, and       *)
(* computes nothing of the loan, the profit or the net benefit.           *)
C5_RejectedComputesNothing ==
    (Done /\ Truthy(btc_price) /\ 4 * 100 * condo_price > btc_amount * btc_price[1]) =>
        /\ outcome = "Rejected"
        /\ fault = "none"
        /\ written = {"max_condo_cost", "condo_price"}
        /\ DOMAIN locals = {"V0", "max_condo_cost"}
        /\ 4 * locals.max_condo_cost = btc_amount * btc_price[1] * (UnitsPerCent \div 100)

C5_Witness ==
    /\ Done /\ outcome = "Rejected" /\ PricePositive
    /\ btc_amount > 0
    /\ condo_price = 3000
    /\ locals.max_condo_cost = 2500 * UnitsPerCent

(* C6: for annual_rate = 0 and years = n > 0 the annual payment is        *)
(* loan_amount / n instead of a division by zero.                         *)
C6_ZeroRateSpecialCase ==
    (pay_result # NotCalled /\ pay_args.annual_rate[1] = 0) =>
        /\ pay_result.ok
        /\ (pay_result.whole * pay_result.den + pay_result.num) * pay_args.years
               = pay_args.loan_amount * pay_result.den

(* C7 as stated: one row per year 1..4 in order, the year-4 remaining     *)
(* balance and the sum of the principals within 0.05 of zero and of       *)
(* loan_amount, and at every year k the remaining balance equal to        *)
(* loan_amount minus the principals of years 1..k.                        *)
ScheduleShape(rows) ==
    /\ Len(rows) = 4
    /\ \A k \in 1 .. 4 : rows[k].Year = k
    /\ Abs(rows[4].Remaining_Balance) < FiveCents
    /\ Abs(SumPrincipal(rows, 4) - locals.L) < FiveCents

C7_ScheduleExactIdentity ==
    outcome = "Accepted" =>
        /\ ScheduleShape(locals.schedule)
        /\ \A k \in 1 .. 4 :
               locals.schedule[k].Remaining_Balance
                   = locals.L - SumPrincipal(locals.schedule, k)

(* C7 amended: the same, with the remaining balance of every row within   *)
(* 0.05 of loan_amount minus the principals of years 1..k (the rows are   *)
(* rounded to cents one by one).                                          *)
C7_ScheduleWithinCents ==
    outcome = "Accepted" =>
        /\ ScheduleShape(locals.schedule)
        /\ \A k \in 1 .. 4 :
               Abs(locals.schedule[k].Remaining_Balance
                       - (locals.L - SumPrincipal(locals.schedule, k))) < FiveCents

C7_Witness ==
    /\ Done /\ outcome = "Accepted" /\ fault = "none"
    /\ Len(locals.schedule) = 4
    /\ locals.schedule[4].Remaining_Balance # 0
    /\ \E k \in 1 .. 4 :
           locals.schedule[k].Remaining_Balance
               # locals.L - SumPrincipal(locals.schedule, k)

(* C8 as stated: total_payments = down_payment + annual_payment * n,      *)
(* profit = total_payments - condo_price = annual_payment * n -           *)
(* loan_amount, and profit > 0 whenever condo_price > 0.                  *)
ProfitIdentities ==
    /\ locals.total_payments = locals.DP + locals.A * 4
    /\ locals.profit = locals.total_payments - CondoUnits
    /\ locals.profit = locals.A * 4 - locals.L

C8_ProfitPositive ==
    outcome = "Accepted" =>
        /\ ProfitIdentities
        /\ condo_price > 0 => locals.profit > 0

(* C8 amended: the same identities, and profit > 0 whenever condo_price   *)
(* is at least 0.07.                                                      *)
C8_ProfitPositiveFromSevenCents ==
    outcome = "Accepted" =>
        /\ ProfitIdentities
        /\ condo_price >= 7 => locals.profit > 0

C8_Witness ==
    /\ Done /\ outcome = "Accepted" /\ fault = "none"
    /\ condo_price = 7
    /\ locals.profit > 0
    /\ locals.total_payments = locals.DP + locals.A * 4

(* C9: in every accepted evaluation the net-benefit series has n + 1      *)
(* entries for the years 0..n in order, the year-0 entry is               *)
(* btc_amount * btc_price + condo_price and the year-n entry is           *)
(* final_btc_value + final_condo_value.                                   *)
SeriesShape ==
    /\ locals.years = <<0, 1, 2, 3, 4>>
    /\ Len(locals.net_benefit) = 5
    /\ locals.net_benefit[1]
           = btc_amount * btc_price[1] * (UnitsPerCent \div 100) + CondoUnits
    /\ locals.net_benefit[5] = locals.final_btc_value + locals.final_condo_value

C9_NetBenefitSeries ==
    outcome = "Accepted" => ("net_benefit" \in DOMAIN locals /\ SeriesShape)

(* C10: with btc_amount >= 0, condo_price >= 0 and a positive price the   *)
(* evaluation ends Accepted with everything computed, or Rejected, and    *)
(* never in a fault; condo_price = 0 included.                            *)
AllComputed ==
    {"A", "schedule", "profit_percentage", "net_benefit"} \subseteq DOMAIN locals

C10_NoFault ==
    (Done /\ PricePositive) =>
        /\ fault = "none"
        /\ outcome \in {"Accepted", "Rejected"}
        /\ outcome = "Accepted" => AllComputed

====
